---- MODULE Spec2Model ----
(***************************************************************************)
(* The threaded chat server of src/threaded.cpp: one reader thread and one *)
(* writer thread per ClientSession, the accepting thread of                *)
(* ChatServer::run, the reaper thread, and shutdown() run by the reader    *)
(* that read "/shutdown".  One action per atomic step of a thread: a step  *)
(* is one access to shared state (an atomic fetch_or, a critical section   *)
(* of a mutex, a blocking call returning).                                 *)
(***************************************************************************)
EXTENDS Integers, Sequences, FiniteSets, TLC

(* ------------------------------ bounds --------------------------------- *)
\* connections the clients ever open
MaxSessions == 2
\* chat lines the clients ever send (the reading of microsec_clock)
MaxChat == 2
\* lines, EOFs, I/O faults and spurious wakeups that ever happen
MaxInputs == 4
\* those of them that happen once a client has sent "/shutdown"
MaxAfterShutdown == 1

Sessions == 1..MaxSessions

(* --------------------------- program constants ------------------------- *)
ALL_RUNNING == 0
READER_TERMINATED == 1
WRITER_TERMINATED == 2
READER_TERMINATION_REQUESTED == 4

\* the lines a client can type: two names, one chat text, the two commands
NameSeq == <<"alice", "bob">>
Names == {NameSeq[i] : i \in 1..Len(NameSeq)}
ChatLines == {"hello"}
QUIT == "/quit"
SHUTDOWN == "/shutdown"
Commands == {QUIT, SHUTDOWN}
\* the default-constructed _name
EmptyName == ""

VARIABLES
  \* ClientSession fields
  state,            \* _state: the atomic<int> bit set
  name,             \* _name
  nameValid,        \* _nameValid
  messages,         \* _messages: the outbound deque
  readerJoined,     \* _readerThread has been joined (its handle is gone)
  \* reader thread of each session
  rpc,              \* position of the reader thread
  rline,            \* the line readLineFromClient returned
  rmsg,             \* the message parseLine built
  rclients,         \* broadcast: receivers of the local vector not yet sent to
  sdLeft,           \* shutdown: clients of the loop not yet terminated
  sdCur,            \* shutdown: the client terminate() is running on
  sigPending,       \* SIGUSR1 sent to the reader thread and not yet delivered
  \* writer thread of each session
  wpc,              \* position of the writer thread
  \* ChatServer fields
  clients,          \* _clients
  namesToClients,   \* _namesToClients: set of <<name, session>>
  clientsToRemove,  \* _clientsToRemove
  isTerminating,    \* _isTerminating
  \* accepting thread
  apc,              \* position of ChatServer::run
  created,          \* sessions constructed so far
  acceptSigPending, \* SIGUSR1 sent to the accepting thread, not yet delivered
  \* reaper thread
  reaperPc,
  reaperClient,     \* the client getClientToRemove returned
  \* environment
  inputsLeft,       \* lines, EOFs and I/O faults the clients can still cause
  clock,            \* microsec_clock: chat lines stamped so far
  failure,          \* "none", or how the process died
  \* history
  removeCount,      \* calls of removeClient per session
  bcasts,           \* per chat message: what broadcast saw and did
  written,          \* per session: messages its writer wrote to the socket
  shutdownReturned, \* some call of shutdown() has returned
  quitRead,         \* sessions whose parseLine got "/quit"
  faulted           \* sessions one of whose units met an I/O fault

sessVars == <<state, name, nameValid, messages, readerJoined>>
readerVars == <<rpc, rline, rmsg, rclients, sdLeft, sdCur>>
writerVars == <<wpc>>
serverVars == <<clients, namesToClients, clientsToRemove, isTerminating>>
acceptVars == <<apc, created, acceptSigPending>>
reaperVars == <<reaperPc, reaperClient>>
envVars == <<inputsLeft, clock, failure>>
histVars == <<removeCount, bcasts, written, shutdownReturned, quitRead, faulted>>
vars == <<sessVars, readerVars, writerVars, serverVars, acceptVars, reaperVars,
          envVars, histVars, sigPending>>

(* ------------------------------ helpers -------------------------------- *)
\* state & bit
HasBit(v, bit) == (v \div bit) % 2 = 1

\* the flag is stored over the value, not or-ed into it
StoreFlag(v, bit) == bit

\* the value _state holds after fetch_or(bit)
FetchOr(v, bit) == IF HasBit(v, bit) THEN v ELSE v + bit

\* the process has not died (a failed assertion, a fault of undefined behaviour)
Alive == failure = "none"

\* the clients send nothing any more (no line, no EOF, no connection, no
\* fault) and no condition variable wakes spuriously
Quiet == inputsLeft = 0

\* an I/O call of this step may fail, unless the clients are quiet
Faults == IF Quiet THEN {FALSE} ELSE {FALSE, TRUE}

\* what is left to the clients after a step that met the fault or not
Spend(fault) == IF fault THEN inputsLeft - 1 ELSE inputsLeft

\* the sessions that have met an I/O fault, after a call on s that failed or not
Met(fault, s) == IF fault THEN faulted \cup {s} ELSE faulted

\* _writerCondition.notify_one() on session r: a writer in wait() is made runnable
NotifyOne(w, r) == IF w[r] = "waiting" THEN [w EXCEPT ![r] = "getMessage"] ELSE w

\* the writer of r holds r's _messagesMutex (between lock and wait()/return)
MessagesMutexHeld(r) == wpc[r] \in {"block", "test"}

\* shutdown() takes no lock
ClientsMutexNeverHeld == FALSE

\* a reader inside shutdown() holds _clientsMutex
ClientsMutexHeld == \E s \in Sessions : rpc[s] \in {"terminate", "kill"}

\* the history record of a chat message nobody has broadcast yet
NoBroadcast ==
  [sender |-> 0, named |-> {}, live |-> {}, count |-> [r \in Sessions |-> 0],
   done |-> FALSE]

Init ==
  /\ state = [s \in Sessions |-> ALL_RUNNING]
  /\ name = [s \in Sessions |-> EmptyName]
  /\ nameValid = [s \in Sessions |-> FALSE]
  /\ messages = [s \in Sessions |-> <<>>]
  /\ readerJoined = [s \in Sessions |-> FALSE]
  /\ rpc = [s \in Sessions |-> "idle"]
  /\ rline = [s \in Sessions |-> ""]
  /\ rmsg = [s \in Sessions |-> <<>>]
  /\ rclients = [s \in Sessions |-> <<>>]
  /\ sdLeft = [s \in Sessions |-> {}]
  /\ sdCur = [s \in Sessions |-> 0]
  /\ sigPending = [s \in Sessions |-> FALSE]
  /\ wpc = [s \in Sessions |-> "idle"]
  /\ clients = {}
  /\ namesToClients = {}
  /\ clientsToRemove = <<>>
  /\ isTerminating = FALSE
  /\ apc = "loop"
  /\ created = 0
  /\ acceptSigPending = FALSE
  /\ reaperPc = "get"
  /\ reaperClient = 0
  /\ inputsLeft = MaxInputs
  /\ clock = 0
  /\ failure = "none"
  /\ removeCount = [s \in Sessions |-> 0]
  /\ bcasts = [k \in 1..MaxChat |-> NoBroadcast]
  /\ written = [s \in Sessions |-> <<>>]
  /\ shutdownReturned = FALSE
  /\ quitRead = {}
  /\ faulted = {}

(* --------------------------- accepting thread -------------------------- *)
\* run(): the loop test and make_shared; then the thread blocks in accept
RunLoop ==
  /\ Alive
  /\ apc = "loop"
  /\ apc' = IF isTerminating THEN "exited" ELSE "accept"
  /\ UNCHANGED <<created, acceptSigPending, sessVars, readerVars, writerVars,
                 serverVars, reaperVars, envVars, histVars, sigPending>>

\* a client connects: accept returns
Connect ==
  /\ Alive
  /\ apc = "accept"
  /\ ~Quiet
  /\ created < MaxSessions
  /\ apc' = "insert"
  /\ created' = created + 1
  /\ UNCHANGED <<acceptSigPending, sessVars, readerVars, writerVars, serverVars,
                 reaperVars, envVars, histVars, sigPending>>

\* the client is let in whatever the flag says
InsertsAlways(terminating) == TRUE

\* run(): the test of _isTerminating under _clientsMutex
MayInsert(terminating) == ~terminating

\* run(): under _clientsMutex, insert and start() unless terminating
RunInsert ==
  /\ Alive
  /\ apc = "insert"
  /\ ~ClientsMutexHeld
  /\ apc' = "loop"
  /\ IF MayInsert(isTerminating)
       THEN /\ clients' = clients \cup {created}
            /\ failure' = IF created \in clients THEN "assert" ELSE failure
            /\ rpc' = [rpc EXCEPT ![created] = "login"]
            /\ wpc' = [wpc EXCEPT ![created] = "getMessage"]
       ELSE UNCHANGED <<clients, failure, rpc, wpc>>
  /\ UNCHANGED <<created, acceptSigPending, sessVars, rline, rmsg, rclients, sdLeft,
                 sdCur, namesToClients, clientsToRemove, isTerminating,
                 reaperVars, inputsLeft, clock, histVars, sigPending>>

\* SIGUSR1 reaches the accepting thread: a blocked accept fails with EINTR and
\* the exception leaves run(); anywhere else the empty handler runs
AcceptSignal ==
  /\ Alive
  /\ acceptSigPending
  /\ acceptSigPending' = FALSE
  /\ apc' = IF apc = "accept" THEN "exited" ELSE apc
  /\ UNCHANGED <<created, sessVars, readerVars, writerVars, serverVars, reaperVars,
                 envVars, histVars, sigPending>>

(* ----------------------------- reader thread --------------------------- *)
\* readerThread(): the login loop's test, then the prompt is written and the
\* thread blocks reading the name; with _state set it goes on to the line loop
ReaderLogin(s) ==
  /\ Alive
  /\ rpc[s] = "login"
  /\ rline' = [rline EXCEPT ![s] = ""]
  /\ IF state[s] # ALL_RUNNING
       THEN /\ rpc' = [rpc EXCEPT ![s] = "readLine"]
            /\ UNCHANGED <<inputsLeft, faulted>>
       ELSE \E fault \in Faults :
              /\ rpc' = [rpc EXCEPT ![s] =
                           IF fault THEN "onReaderShutdown" ELSE "readName"]
              /\ inputsLeft' = Spend(fault)
              /\ faulted' = Met(fault, s)
  /\ UNCHANGED <<rmsg, rclients, sdLeft, sdCur, sessVars, writerVars,
                 serverVars, acceptVars, reaperVars, clock, failure, removeCount,
                 bcasts, written, shutdownReturned, quitRead, sigPending>>

\* readLineFromClient() in the login loop returns the name the client typed
ReadName(s, n) ==
  /\ Alive
  /\ rpc[s] = "readName"
  /\ ~Quiet
  /\ rpc' = [rpc EXCEPT ![s] = "setClientName"]
  /\ rline' = [rline EXCEPT ![s] = n]
  /\ inputsLeft' = inputsLeft - 1
  /\ UNCHANGED <<rmsg, rclients, sdLeft, sdCur, sessVars, writerVars, serverVars,
                 acceptVars, reaperVars, clock, failure, histVars, sigPending>>

\* read_until fails (EOF, connection reset): the exception ends the loops
ReadFault(s) ==
  /\ Alive
  /\ rpc[s] \in {"readName", "readLine"}
  /\ ~Quiet
  /\ rpc' = [rpc EXCEPT ![s] = "onReaderShutdown"]
  /\ inputsLeft' = inputsLeft - 1
  /\ faulted' = Met(TRUE, s)
  /\ UNCHANGED <<rline, rmsg, rclients, sdLeft, sdCur, sessVars, writerVars,
                 serverVars, acceptVars, reaperVars, clock, failure, removeCount,
                 bcasts, written, shutdownReturned, quitRead, sigPending>>

\* the map compares the keys' addresses, not the strings: nothing is found
NameFoundByAddress(map, n) == FALSE

\* _namesToClients.find(&name) != end()
NameFound(map, n) == \E p \in map : p[1] = n

\* the login loop asks for a name again whatever setClientName returned
LoginLoopAgain(loginSuccessfull) == "login"

\* readerThread(): where the reader goes after the response: a successful
\* login ends the login loop, a refused one goes round it
LoginLoopNext(loginSuccessfull) == IF loginSuccessfull THEN "readLine" ELSE "login"

\* ChatServer::setClientName under _namesToClientsMutex, and the response
SetClientName(s) ==
  /\ Alive
  /\ rpc[s] = "setClientName"
  /\ \E fault \in Faults :
       /\ inputsLeft' = Spend(fault)
       /\ faulted' = Met(fault, s)
       /\ IF ~NameFound(namesToClients, rline[s])
         THEN /\ failure' = IF nameValid[s] THEN "assert" ELSE failure
              /\ name' = [name EXCEPT ![s] = rline[s]]
              /\ nameValid' = [nameValid EXCEPT ![s] = TRUE]
              /\ namesToClients' = namesToClients \cup {<<rline[s], s>>}
              /\ rpc' = [rpc EXCEPT ![s] =
                           IF fault THEN "onReaderShutdown" ELSE LoginLoopNext(TRUE)]
              /\ rline' = [rline EXCEPT ![s] = ""]
         ELSE /\ rpc' = [rpc EXCEPT ![s] =
                           IF fault THEN "onReaderShutdown" ELSE LoginLoopNext(FALSE)]
              /\ rline' = [rline EXCEPT ![s] = IF fault THEN "" ELSE @]
              /\ UNCHANGED <<failure, name, nameValid, namesToClients>>
  /\ UNCHANGED <<rmsg, rclients, sdLeft, sdCur, state, messages,
                 readerJoined, writerVars, clients, clientsToRemove, isTerminating,
                 acceptVars, reaperVars, clock, removeCount, bcasts, written,
                 shutdownReturned, quitRead, sigPending>>

\* chat lines read and not yet stamped by parseLine
PendingChat == Cardinality({t \in Sessions : rpc[t] = "parseLine" /\ rline[t] \in ChatLines})

\* what is left to the clients once they have sent the line l
LeftAfter(l) ==
  IF l = SHUTDOWN /\ inputsLeft - 1 > MaxAfterShutdown
    THEN MaxAfterShutdown
    ELSE inputsLeft - 1

\* readLineFromClient() in the line loop returns a line
ReadLine(s, l) ==
  /\ Alive
  /\ rpc[s] = "readLine"
  /\ ~Quiet
  /\ l \in ChatLines => clock + PendingChat < MaxChat
  /\ rpc' = [rpc EXCEPT ![s] = "parseLine"]
  /\ rline' = [rline EXCEPT ![s] = l]
  /\ inputsLeft' = LeftAfter(l)
  /\ UNCHANGED <<rmsg, rclients, sdLeft, sdCur, sessVars, writerVars, serverVars,
                 acceptVars, reaperVars, clock, failure, histVars, sigPending>>

\* parseLine(): the command, or the message stamped with the clock and _name
ParseLine(s) ==
  /\ Alive
  /\ rpc[s] = "parseLine"
  /\ IF rline[s] = QUIT
       THEN /\ rpc' = [rpc EXCEPT ![s] = "onReaderShutdown"]
            /\ quitRead' = quitRead \cup {s}
            /\ UNCHANGED <<rmsg, clock>>
       ELSE IF rline[s] = SHUTDOWN
       THEN /\ rpc' = [rpc EXCEPT ![s] = "shutdown"]
            /\ UNCHANGED <<rmsg, clock, quitRead>>
       ELSE /\ rpc' = [rpc EXCEPT ![s] = "broadcast"]
            /\ clock' = clock + 1
            /\ rmsg' = [rmsg EXCEPT ![s] = <<clock + 1, name[s], rline[s]>>]
            /\ UNCHANGED quitRead
  /\ rline' = [rline EXCEPT ![s] = ""]
  /\ UNCHANGED <<rclients, sdLeft, sdCur, sessVars, writerVars, serverVars,
                 acceptVars, reaperVars, inputsLeft, failure, removeCount, bcasts,
                 written, shutdownReturned, faulted, sigPending>>

\* the map's value for name n
SessionOf(map, n) == CHOOSE c \in Sessions : <<n, c>> \in map

\* the vector broadcast copies from _namesToClients, in the map's order
ClientsVector(map) ==
  LET taken == SelectSeq(NameSeq, LAMBDA n : NameFound(map, n))
  IN  [i \in 1..Len(taken) |-> SessionOf(map, taken[i])]

\* the sender is not skipped
ReceiversWithSender(vec, sender) == vec

\* the receivers of the vector that sendMessage is called on
Receivers(vec, sender) == SelectSeq(vec, LAMBDA c : c # sender)

\* broadcast(): the copy of the map's sessions under _namesToClientsMutex
Broadcast(s) ==
  /\ Alive
  /\ rpc[s] = "broadcast"
  /\ LET to == Receivers(ClientsVector(namesToClients), s)
         k == rmsg[s][1]
     IN  /\ rclients' = [rclients EXCEPT ![s] = to]
         /\ rpc' = [rpc EXCEPT ![s] = IF to = <<>> THEN "readLine" ELSE "send"]
         /\ rmsg' = [rmsg EXCEPT ![s] = IF to = <<>> THEN <<>> ELSE @]
         /\ bcasts' = [bcasts EXCEPT ![k] =
                         [sender |-> s,
                          named |-> {p[2] : p \in namesToClients},
                          live |-> clients,
                          count |-> [r \in Sessions |-> 0],
                          done |-> (to = <<>>)]]
  /\ UNCHANGED <<rline, sdLeft, sdCur, sessVars, writerVars, serverVars,
                 acceptVars, reaperVars, envVars, removeCount, written,
                 shutdownReturned, sigPending, quitRead, faulted>>

\* the message is pushed at the front
PushFront(q, m) == <<m>> \o q

\* _messages.push_back(msg)
PushBack(q, m) == Append(q, m)

\* broadcast(): receiver->sendMessage(msg) on the next receiver
Send(s) ==
  /\ Alive
  /\ rpc[s] = "send"
  /\ LET r == Head(rclients[s])
         rest == Tail(rclients[s])
         k == rmsg[s][1]
     IN  /\ ~MessagesMutexHeld(r)
         /\ messages' = [messages EXCEPT ![r] = PushBack(@, rmsg[s])]
         /\ wpc' = NotifyOne(wpc, r)
         /\ rclients' = [rclients EXCEPT ![s] = rest]
         /\ rpc' = [rpc EXCEPT ![s] = IF rest = <<>> THEN "readLine" ELSE "send"]
         /\ rmsg' = [rmsg EXCEPT ![s] = IF rest = <<>> THEN <<>> ELSE @]
         /\ bcasts' = [bcasts EXCEPT ![k].count[r] = @ + 1,
                                     ![k].done = (rest = <<>>)]
  /\ UNCHANGED <<rline, sdLeft, sdCur, state, name, nameValid, readerJoined,
                 serverVars, acceptVars, reaperVars, envVars, removeCount,
                 written, shutdownReturned, sigPending, quitRead, faulted>>

\* interruptReader(): _state.fetch_or(READER_TERMINATION_REQUESTED)
RequestTermination(v) == FetchOr(v, READER_TERMINATION_REQUESTED)

\* pthread_kill(_readerThread.native_handle(), SIGUSR1) on session c by thread
\* of session s (self: the calling thread is c's reader).  A joined thread has
\* no handle: the call is undefined, it does nothing or kills the process.
PthreadKill(c, self) ==
  IF readerJoined[c]
    THEN /\ \E crash \in BOOLEAN : failure' = IF crash THEN "segv" ELSE failure
         /\ UNCHANGED sigPending
    ELSE /\ sigPending' = [sigPending EXCEPT ![c] =
                             IF self \/ rpc[c] = "done" THEN @ ELSE TRUE]
         /\ UNCHANGED failure

\* shutdown(): lock _clientsMutex and start the loop over _clients
ShutdownLock(s) ==
  /\ Alive
  /\ rpc[s] = "shutdown"
  /\ ~ClientsMutexHeld
  /\ rpc' = [rpc EXCEPT ![s] = "terminate"]
  /\ sdLeft' = [sdLeft EXCEPT ![s] = clients]
  /\ UNCHANGED <<rline, rmsg, rclients, sdCur, sessVars, writerVars, serverVars,
                 acceptVars, reaperVars, envVars, histVars, sigPending>>

\* shutdown(): client->terminate() sets the flag of the next client; after the
\* last one _isTerminating is set and the lock released
Terminate(s) ==
  /\ Alive
  /\ rpc[s] = "terminate"
  /\ IF sdLeft[s] = {}
       THEN /\ isTerminating' = TRUE
            /\ rpc' = [rpc EXCEPT ![s] = "killAcceptor"]
            /\ UNCHANGED <<state, sdLeft, sdCur>>
       ELSE /\ \E c \in sdLeft[s] :
                 /\ state' = [state EXCEPT ![c] = RequestTermination(@)]
                 /\ sdLeft' = [sdLeft EXCEPT ![s] = @ \ {c}]
                 /\ sdCur' = [sdCur EXCEPT ![s] = c]
            /\ rpc' = [rpc EXCEPT ![s] = "kill"]
            /\ UNCHANGED isTerminating
  /\ UNCHANGED <<rline, rmsg, rclients, name, nameValid, messages, readerJoined,
                 writerVars, clients, namesToClients, clientsToRemove, acceptVars,
                 reaperVars, envVars, histVars, sigPending>>

\* shutdown(): terminate() signals the client's reader thread
Kill(s) ==
  /\ Alive
  /\ rpc[s] = "kill"
  /\ PthreadKill(sdCur[s], sdCur[s] = s)
  /\ rpc' = [rpc EXCEPT ![s] = "terminate"]
  /\ sdCur' = [sdCur EXCEPT ![s] = 0]
  /\ UNCHANGED <<rline, rmsg, rclients, sdLeft, sessVars, writerVars, serverVars,
                 acceptVars, reaperVars, inputsLeft, clock, histVars>>

\* shutdown(): pthread_kill(_acceptingThreadId, SIGUSR1), and the return
KillAcceptor(s) ==
  /\ Alive
  /\ rpc[s] = "killAcceptor"
  /\ acceptSigPending' = (apc # "exited")
  /\ shutdownReturned' = TRUE
  /\ rpc' = [rpc EXCEPT ![s] = "onReaderShutdown"]
  /\ UNCHANGED <<rline, rmsg, rclients, sdLeft, sdCur, sessVars, writerVars,
                 serverVars, apc, created, reaperVars, envVars, removeCount, bcasts,
                 written, sigPending, quitRead, faulted>>

\* the test reads the unit's own bit, not the other unit's
ReaderTestsOwnBit(old) == HasBit(old, READER_TERMINATED)

\* onReaderShutdown(): this unit is the second to finish
ReaderIsSecond(old) == HasBit(old, WRITER_TERMINATED)

\* the client is pushed twice
RemoveClientTwice(q, c) == Append(Append(q, c), c)

\* removeClient(): push the client under _clientsToRemoveMutex
RemoveClient(q, c) == Append(q, c)

\* onReaderShutdown(): fetch_or(READER_TERMINATED); the second unit to finish
\* calls removeClient and its thread function returns, the first goes on to notify
OnReaderShutdown(s) ==
  /\ Alive
  /\ rpc[s] = "onReaderShutdown"
  /\ state' = [state EXCEPT ![s] = FetchOr(@, READER_TERMINATED)]
  /\ IF ReaderIsSecond(state[s])
       THEN /\ clientsToRemove' = RemoveClient(clientsToRemove, s)
            /\ removeCount' = [removeCount EXCEPT ![s] = @ + 1]
            /\ rpc' = [rpc EXCEPT ![s] = "done"]
       ELSE /\ rpc' = [rpc EXCEPT ![s] = "notify"]
            /\ UNCHANGED <<clientsToRemove, removeCount>>
  /\ UNCHANGED <<rline, rmsg, rclients, sdLeft, sdCur, name, nameValid, messages,
                 readerJoined, writerVars, clients, namesToClients, isTerminating,
                 acceptVars, reaperVars, envVars, bcasts, written, shutdownReturned,
                 sigPending, quitRead, faulted>>

\* onReaderShutdown(): _writerCondition.notify_one(), without the mutex; the
\* thread function returns
ReaderNotify(s) ==
  /\ Alive
  /\ rpc[s] = "notify"
  /\ wpc' = NotifyOne(wpc, s)
  /\ rpc' = [rpc EXCEPT ![s] = "done"]
  /\ UNCHANGED <<rline, rmsg, rclients, sdLeft, sdCur, sessVars, serverVars,
                 acceptVars, reaperVars, envVars, histVars, sigPending>>

\* SIGUSR1 reaches the reader thread: a blocked read fails with EINTR (the
\* handler is installed without SA_RESTART); anywhere else the empty handler
\* runs and the signal is gone
DeliverSignal(s) ==
  /\ Alive
  /\ sigPending[s]
  /\ sigPending' = [sigPending EXCEPT ![s] = FALSE]
  /\ rpc' = [rpc EXCEPT ![s] =
               IF @ \in {"readName", "readLine"} THEN "onReaderShutdown" ELSE @]
  /\ UNCHANGED <<rline, rmsg, rclients, sdLeft, sdCur, sessVars, writerVars,
                 serverVars, acceptVars, reaperVars, envVars, histVars>>

(* ----------------------------- writer thread --------------------------- *)
\* the wait returns at once, whatever _state and the queue hold
WaitsForNothing(v, q) == TRUE

\* getMessage(): the predicate of _writerCondition.wait
WaitPredicate(v, q) == v # ALL_RUNNING \/ q # <<>>

\* getMessage(): lock _messagesMutex and evaluate the wait predicate
WriterGetMessage(s) ==
  /\ Alive
  /\ wpc[s] = "getMessage"
  /\ wpc' = [wpc EXCEPT ![s] = IF WaitPredicate(state[s], messages[s]) THEN "test"
                               ELSE "block"]
  /\ UNCHANGED <<sessVars, readerVars, serverVars, acceptVars, reaperVars,
                 envVars, histVars, sigPending>>

\* getMessage(): wait() releases the mutex and blocks, in one step
WriterBlock(s) ==
  /\ Alive
  /\ wpc[s] = "block"
  /\ wpc' = [wpc EXCEPT ![s] = "waiting"]
  /\ UNCHANGED <<sessVars, readerVars, serverVars, acceptVars, reaperVars,
                 envVars, histVars, sigPending>>

\* a condition variable may wake its waiter with no notify: an event nobody
\* owes to the program, counted with the clients' inputs
SpuriousWakeup(s) ==
  /\ Alive
  /\ wpc[s] = "waiting"
  /\ ~Quiet
  /\ wpc' = [wpc EXCEPT ![s] = "getMessage"]
  /\ inputsLeft' = inputsLeft - 1
  /\ UNCHANGED <<sessVars, readerVars, serverVars, acceptVars, reaperVars,
                 clock, failure, histVars, sigPending>>

\* getMessage(): the test after the wait that makes it return no message
ReturnsNull(v, q) == v # ALL_RUNNING

\* _messages.pop_front()
PopFront(q) == Tail(q)

\* getMessage() after the wait returns null, or pops the front of the queue,
\* which writerThread() writes to the socket (boost::asio::write may throw)
WriterTest(s) ==
  /\ Alive
  /\ wpc[s] = "test"
  /\ IF ReturnsNull(state[s], messages[s])
       THEN /\ wpc' = [wpc EXCEPT ![s] = "onWriterShutdown"]
            /\ UNCHANGED <<messages, failure, written, inputsLeft, faulted>>
       ELSE IF messages[s] = <<>>
       THEN /\ failure' = "emptyfront"
            /\ UNCHANGED <<wpc, messages, written, inputsLeft, faulted>>
       ELSE \E fault \in Faults :
              /\ messages' = [messages EXCEPT ![s] = PopFront(@)]
              /\ inputsLeft' = Spend(fault)
              /\ faulted' = Met(fault, s)
              /\ wpc' = [wpc EXCEPT ![s] =
                           IF fault THEN "onWriterShutdown" ELSE "getMessage"]
              /\ written' = [written EXCEPT ![s] =
                               IF fault THEN @ ELSE Append(@, Head(messages[s]))]
              /\ UNCHANGED failure
  /\ UNCHANGED <<state, name, nameValid, readerJoined, readerVars, serverVars,
                 acceptVars, reaperVars, clock, removeCount, bcasts,
                 shutdownReturned, sigPending, quitRead>>

\* the writer takes itself for the second whatever it has read
WriterAlwaysSecond(old) == TRUE

\* onWriterShutdown(): this unit is the second to finish
WriterIsSecond(old) == HasBit(old, READER_TERMINATED)

\* onWriterShutdown(): fetch_or(WRITER_TERMINATED); the second unit to finish
\* calls removeClient and its thread function returns, the first goes on to
\* interruptReader()
OnWriterShutdown(s) ==
  /\ Alive
  /\ wpc[s] = "onWriterShutdown"
  /\ state' = [state EXCEPT ![s] = FetchOr(@, WRITER_TERMINATED)]
  /\ IF WriterIsSecond(state[s])
       THEN /\ clientsToRemove' = RemoveClient(clientsToRemove, s)
            /\ removeCount' = [removeCount EXCEPT ![s] = @ + 1]
            /\ wpc' = [wpc EXCEPT ![s] = "done"]
       ELSE /\ wpc' = [wpc EXCEPT ![s] = "interrupt"]
            /\ UNCHANGED <<clientsToRemove, removeCount>>
  /\ UNCHANGED <<name, nameValid, messages, readerJoined, readerVars, clients,
                 namesToClients, isTerminating, acceptVars, reaperVars, envVars,
                 bcasts, written, shutdownReturned, sigPending, quitRead,
                 faulted>>

\* interruptReader() called by the writer: the flag (no test of _state tells
\* it from WRITER_TERMINATED, set already) and the signal; the thread function
\* returns
WriterInterrupt(s) ==
  /\ Alive
  /\ wpc[s] = "interrupt"
  /\ state' = [state EXCEPT ![s] = RequestTermination(@)]
  /\ PthreadKill(s, FALSE)
  /\ wpc' = [wpc EXCEPT ![s] = "done"]
  /\ UNCHANGED <<name, nameValid, messages, readerJoined, readerVars, serverVars,
                 acceptVars, reaperVars, inputsLeft, clock, histVars>>

(* ----------------------------- reaper thread --------------------------- *)
\* getClientToRemove(): wait for a non-empty queue, take its front
GetClientToRemove ==
  /\ Alive
  /\ reaperPc = "get"
  /\ clientsToRemove # <<>>
  /\ reaperClient' = Head(clientsToRemove)
  /\ clientsToRemove' = Tail(clientsToRemove)
  /\ reaperPc' = "waitToFinish"
  /\ UNCHANGED <<sessVars, readerVars, writerVars, clients, namesToClients,
                 isTerminating, acceptVars, envVars, histVars, sigPending>>

\* waitToFinish(): the two assertions, then _readerThread.join()
WaitToFinish ==
  /\ Alive
  /\ reaperPc = "waitToFinish"
  /\ IF ~(HasBit(state[reaperClient], READER_TERMINATED)
          /\ HasBit(state[reaperClient], WRITER_TERMINATED))
       THEN /\ failure' = "assert"
            /\ UNCHANGED <<reaperPc, readerJoined>>
       ELSE /\ rpc[reaperClient] = "done"
            /\ readerJoined' = [readerJoined EXCEPT ![reaperClient] = TRUE]
            /\ reaperPc' = "joinWriter"
            /\ UNCHANGED failure
  /\ UNCHANGED <<reaperClient, state, name, nameValid, messages, readerVars,
                 writerVars, serverVars, acceptVars, inputsLeft, clock, histVars,
                 sigPending>>

\* waitToFinish(): _writerThread.join()
JoinWriter ==
  /\ Alive
  /\ reaperPc = "joinWriter"
  /\ wpc[reaperClient] = "done"
  /\ reaperPc' = "eraseName"
  /\ UNCHANGED <<reaperClient, sessVars, readerVars, writerVars, serverVars,
                 acceptVars, envVars, histVars, sigPending>>

\* the erase empties the map
EraseAll(map, n, valid) == {}

\* _namesToClients.erase(client->getName()): the key is null without a name
EraseKey(map, n, valid) == IF valid THEN {p \in map : p[1] # n} ELSE map

\* reaperThread(): erase the name under _namesToClientsMutex
EraseName ==
  /\ Alive
  /\ reaperPc = "eraseName"
  /\ namesToClients' =
       EraseKey(namesToClients, name[reaperClient], nameValid[reaperClient])
  /\ reaperPc' = "eraseClient"
  /\ UNCHANGED <<reaperClient, sessVars, readerVars, writerVars, clients,
                 clientsToRemove, isTerminating, acceptVars, envVars, histVars,
                 sigPending>>

\* reaperThread(): erase the client under _clientsMutex, assert, test for the end
EraseClient ==
  /\ Alive
  /\ reaperPc = "eraseClient"
  /\ ~ClientsMutexHeld
  /\ clients' = clients \ {reaperClient}
  /\ failure' = IF reaperClient \in clients THEN failure ELSE "assert"
  /\ reaperPc' = IF isTerminating /\ clients' = {} THEN "done" ELSE "get"
  /\ reaperClient' = 0
  /\ UNCHANGED <<sessVars, readerVars, writerVars, namesToClients, clientsToRemove,
                 isTerminating, acceptVars, inputsLeft, clock, histVars, sigPending>>

\* the reaper is inside waitToFinish(), at one of the two joins (no lock of a
\* mutex fails in this model, in the reaper or elsewhere)
Joining == reaperPc \in {"waitToFinish", "joinWriter"}

\* reaperThread(): where an exception thrown in the loop body leaves the
\* thread: the catch is outside while (true), the thread function returns
CatchOutsideLoop == "caught"

\* reaperThread(): the cleanup of a client throws (std::thread::join may
\* throw std::system_error); the catch logs it
ReaperFault ==
  /\ Alive
  /\ Joining
  /\ ~Quiet
  /\ inputsLeft' = inputsLeft - 1
  /\ reaperPc' = CatchOutsideLoop
  /\ reaperClient' = 0
  /\ UNCHANGED <<sessVars, readerVars, writerVars, serverVars, acceptVars, clock,
                 failure, histVars, sigPending>>

(* ------------------------------ environment ---------------------------- *)
\* from now on the clients send nothing, no connection fails and no condition
\* variable wakes spuriously
GoQuiet ==
  /\ Alive
  /\ ~Quiet
  /\ inputsLeft' = 0
  /\ UNCHANGED <<sessVars, readerVars, writerVars, serverVars, acceptVars,
                 reaperVars, clock, failure, histVars, sigPending>>

(* ---------------------------- specification ---------------------------- *)
Next ==
  \/ RunLoop
  \/ Connect
  \/ RunInsert
  \/ AcceptSignal
  \/ \E s \in Sessions : ReaderLogin(s)
  \/ \E s \in Sessions : \E n \in Names : ReadName(s, n)
  \/ \E s \in Sessions : ReadFault(s)
  \/ \E s \in Sessions : SetClientName(s)
  \/ \E s \in Sessions : \E l \in ChatLines \cup Commands : ReadLine(s, l)
  \/ \E s \in Sessions : ParseLine(s)
  \/ \E s \in Sessions : Broadcast(s)
  \/ \E s \in Sessions : Send(s)
  \/ \E s \in Sessions : ShutdownLock(s)
  \/ \E s \in Sessions : Terminate(s)
  \/ \E s \in Sessions : Kill(s)
  \/ \E s \in Sessions : KillAcceptor(s)
  \/ \E s \in Sessions : OnReaderShutdown(s)
  \/ \E s \in Sessions : ReaderNotify(s)
  \/ \E s \in Sessions : DeliverSignal(s)
  \/ \E s \in Sessions : WriterGetMessage(s)
  \/ \E s \in Sessions : WriterBlock(s)
  \/ \E s \in Sessions : SpuriousWakeup(s)
  \/ \E s \in Sessions : WriterTest(s)
  \/ \E s \in Sessions : OnWriterShutdown(s)
  \/ \E s \in Sessions : WriterInterrupt(s)
  \/ GetClientToRemove
  \/ WaitToFinish
  \/ JoinWriter
  \/ EraseName
  \/ EraseClient
  \/ ReaperFault
  \/ GoQuiet

Spec == Init /\ [][Next]_vars

(* -------------------------- coroutine variant -------------------------- *)
(* src/coroutine.cpp: the same classes on one thread.  io_service::run     *)
(* resumes one coroutine at a time, and a resumed coroutine runs to its    *)
(* next asynchronous call: one action per resumption.  The fields keep     *)
(* their variables (messages is _outputData here); rpc and wpc are the     *)
(* call a coroutine is suspended in, apc the accepting coroutine's;        *)
(* shutdownReturned says io_service::stop has been called.  The variant    *)
(* has no _clients, no reclamation queue, no reaper and no signal: their   *)
(* variables stay as Init leaves them.                                     *)

\* what the coroutine variant does not have
coUnused == <<readerJoined, rmsg, rclients, sdLeft, sdCur, sigPending, clients,
              clientsToRemove, isTerminating, acceptSigPending, reaperVars,
              bcasts, written, quitRead>>

\* io_service::run is still dispatching handlers
CoRunning == Alive /\ ~shutdownReturned

\* the asynchronous calls on _socket a reader coroutine can be suspended in
CoSocketCalls == {"prompt", "readName", "welcome", "taken", "readLine"}

\* oldState is what _state held when the other coroutine had not run yet
CoStaleOldState(v) == ALL_RUNNING

\* int oldState = _state, read in the resumption that writes _state
CoOldState(v) == v

\* ConditionVariable::notify_one(): _timer.cancel_one() ends the wait of the
\* writer coroutine, if it is in one
CoNotifyOne(w, r) == IF w[r] = "waiting" THEN [w EXCEPT ![r] = "notified"] ELSE w

\* _socket.cancel() on session s: the call the reader is suspended in ends
\* with operation_aborted, unless it has completed already (its handler is
\* queued), which takes something the client has sent
CoSocketCancel(r, s, cancelled) ==
  IF cancelled /\ r[s] \in CoSocketCalls THEN [r EXCEPT ![s] = "aborted"] ELSE r

\* ChatServer::removeClient: the name is erased from the map
CoRemoveClient(s) ==
  /\ namesToClients' = EraseKey(namesToClients, name[s], nameValid[s])
  /\ removeCount' = [removeCount EXCEPT ![s] = @ + 1]

\* onReaderShutdown(): the read and the write of _state, then removeClient
\* or notify_one; the coroutine ends
CoOnReaderShutdown(s) ==
  LET oldState == CoOldState(state[s])
  IN  /\ state' = [state EXCEPT ![s] = FetchOr(oldState, READER_TERMINATED)]
      /\ rpc' = [rpc EXCEPT ![s] = "done"]
      /\ IF HasBit(oldState, WRITER_TERMINATED)
           THEN /\ CoRemoveClient(s)
                /\ UNCHANGED wpc
           ELSE /\ wpc' = CoNotifyOne(wpc, s)
                /\ UNCHANGED <<namesToClients, removeCount>>

\* onWriterShutdown(): the read and the write of _state, then removeClient
\* or _socket.cancel(); the coroutine ends
CoOnWriterShutdown(s) ==
  LET oldState == CoOldState(state[s])
  IN  /\ state' = [state EXCEPT ![s] = FetchOr(oldState, WRITER_TERMINATED)]
      /\ IF HasBit(oldState, READER_TERMINATED)
           THEN /\ CoRemoveClient(s)
                /\ rpc' = rpc
                /\ wpc' = [wpc EXCEPT ![s] = "done"]
           ELSE /\ \E cancelled \in (IF Quiet THEN {TRUE} ELSE BOOLEAN) :
                     rpc' = CoSocketCancel(rpc, s, cancelled)
                /\ wpc' = [wpc EXCEPT ![s] = "done"]
                /\ UNCHANGED <<namesToClients, removeCount>>

\* getMessage() once the wait has returned: the front of _outputData, which
\* writerThread() starts to write, or null, which ends the writer's loop
CoAfterWait(s) ==
  IF state[s] = ALL_RUNNING
    THEN IF messages[s] = <<>>
      THEN /\ failure' = "emptyfront"
           /\ UNCHANGED <<state, rpc, wpc, messages, namesToClients, removeCount>>
      ELSE /\ messages' = [messages EXCEPT ![s] = PopFront(@)]
           /\ wpc' = [wpc EXCEPT ![s] = "write"]
           /\ UNCHANGED <<state, rpc, namesToClients, removeCount, failure>>
    ELSE /\ CoOnWriterShutdown(s)
         /\ UNCHANGED <<messages, failure>>

\* getMessage(): the predicate of _writerCondition.wait
CoWaitPredicate(v, q) == ~(v = ALL_RUNNING /\ q = <<>>)

\* getMessage() from its start: the coroutine is suspended in the timer's
\* wait unless the predicate holds
CoGetMessage(s) ==
  IF CoWaitPredicate(state[s], messages[s])
    THEN CoAfterWait(s)
    ELSE /\ wpc' = [wpc EXCEPT ![s] = "waiting"]
         /\ UNCHANGED <<state, rpc, messages, namesToClients, removeCount, failure>>

\* acceptThread() starts: make_shared and async_accept
CoAcceptThread ==
  /\ CoRunning
  /\ apc = "loop"
  /\ apc' = "accept"
  /\ UNCHANGED <<sessVars, rpc, rline, wpc, namesToClients, created, envVars,
                 removeCount, shutdownReturned, faulted, coUnused>>

\* a client connects: async_accept completes, start() spawns the two
\* coroutines and the loop calls async_accept again
CoAccept ==
  /\ CoRunning
  /\ apc = "accept"
  /\ ~Quiet
  /\ created < MaxSessions
  /\ created' = created + 1
  /\ rpc' = [rpc EXCEPT ![created + 1] = "start"]
  /\ wpc' = [wpc EXCEPT ![created + 1] = "start"]
  /\ UNCHANGED <<sessVars, rline, namesToClients, apc, envVars, removeCount,
                 shutdownReturned, faulted, coUnused>>

\* readerThread() starts: the prompt is being written
CoReaderThread(s) ==
  /\ CoRunning
  /\ rpc[s] = "start"
  /\ rpc' = [rpc EXCEPT ![s] = "prompt"]
  /\ UNCHANGED <<sessVars, rline, wpc, namesToClients, apc, created, envVars,
                 removeCount, shutdownReturned, faulted, coUnused>>

\* the prompt is written: readLineFromClient() in the login loop
CoPromptWritten(s) ==
  /\ CoRunning
  /\ rpc[s] = "prompt"
  /\ rpc' = [rpc EXCEPT ![s] = "readName"]
  /\ UNCHANGED <<sessVars, rline, wpc, namesToClients, apc, created, envVars,
                 removeCount, shutdownReturned, faulted, coUnused>>

\* the name is read: setClientName, and the response is being written
CoSetClientName(s, n) ==
  /\ CoRunning
  /\ rpc[s] = "readName"
  /\ ~Quiet
  /\ inputsLeft' = inputsLeft - 1
  /\ rline' = [rline EXCEPT ![s] = n]
  /\ IF ~NameFound(namesToClients, n)
       THEN /\ failure' = IF nameValid[s] THEN "assert" ELSE failure
            /\ name' = [name EXCEPT ![s] = n]
            /\ nameValid' = [nameValid EXCEPT ![s] = TRUE]
            /\ namesToClients' = namesToClients \cup {<<n, s>>}
            /\ rpc' = [rpc EXCEPT ![s] = "welcome"]
       ELSE /\ rpc' = [rpc EXCEPT ![s] = "taken"]
            /\ UNCHANGED <<failure, name, nameValid, namesToClients>>
  /\ UNCHANGED <<state, messages, wpc, apc, created, clock, removeCount,
                 shutdownReturned, faulted, coUnused>>

\* the response is written: the line loop after a welcome, the login loop
\* again after a refusal
CoResponseWritten(s) ==
  /\ CoRunning
  /\ rpc[s] \in {"welcome", "taken"}
  /\ rpc' = [rpc EXCEPT ![s] = IF @ = "welcome" THEN "readLine" ELSE "prompt"]
  /\ UNCHANGED <<sessVars, rline, wpc, namesToClients, apc, created, envVars,
                 removeCount, shutdownReturned, faulted, coUnused>>

\* broadcast(): sendMessage on every other session of the map, in one
\* resumption: push_back and notify_one
CoBroadcast(s, msg) ==
  LET to == {p[2] : p \in namesToClients} \ {s}
  IN  /\ messages' = [r \in Sessions |->
                        IF r \in to THEN PushBack(messages[r], msg) ELSE messages[r]]
      /\ wpc' = [r \in Sessions |->
                   IF r \in to /\ wpc[r] = "waiting" THEN "notified" ELSE wpc[r]]

\* a line is read in the line loop: parseLine, and what it calls
CoParseLine(s, l) ==
  /\ CoRunning
  /\ rpc[s] = "readLine"
  /\ ~Quiet
  /\ l \in ChatLines => clock < MaxChat
  /\ inputsLeft' = inputsLeft - 1
  /\ rline' = [rline EXCEPT ![s] = l]
  /\ IF l = QUIT
       THEN /\ CoOnReaderShutdown(s)
            /\ UNCHANGED <<messages, clock, shutdownReturned>>
       ELSE IF l = SHUTDOWN
       THEN /\ shutdownReturned' = TRUE
            /\ CoOnReaderShutdown(s)
            /\ UNCHANGED <<messages, clock>>
       ELSE /\ CoBroadcast(s, <<clock + 1, name[s], l>>)
            /\ clock' = clock + 1
            /\ UNCHANGED <<state, rpc, namesToClients, removeCount, shutdownReturned>>
  /\ UNCHANGED <<name, nameValid, apc, created, failure, faulted, coUnused>>

\* a read or a write of the reader fails (EOF, connection reset): the
\* exception ends the loops
CoReaderFault(s) ==
  /\ CoRunning
  /\ rpc[s] \in CoSocketCalls
  /\ ~Quiet
  /\ inputsLeft' = inputsLeft - 1
  /\ faulted' = Met(TRUE, s)
  /\ CoOnReaderShutdown(s)
  /\ UNCHANGED <<name, nameValid, messages, rline, apc, created, clock, failure,
                 shutdownReturned, coUnused>>

\* the reader's call was cancelled: operation_aborted, the exception ends
\* the loops
CoReaderAborted(s) ==
  /\ CoRunning
  /\ rpc[s] = "aborted"
  /\ CoOnReaderShutdown(s)
  /\ UNCHANGED <<name, nameValid, messages, rline, apc, created, envVars,
                 shutdownReturned, faulted, coUnused>>

\* writerThread() starts: getMessage()
CoWriterThread(s) ==
  /\ CoRunning
  /\ wpc[s] = "start"
  /\ CoGetMessage(s)
  /\ UNCHANGED <<name, nameValid, rline, apc, created, inputsLeft, clock,
                 shutdownReturned, faulted, coUnused>>

\* the timer's wait was cancelled by a notify: wait() returns without
\* another look at the predicate
CoWaitReturns(s) ==
  /\ CoRunning
  /\ wpc[s] = "notified"
  /\ CoAfterWait(s)
  /\ UNCHANGED <<name, nameValid, rline, apc, created, inputsLeft, clock,
                 shutdownReturned, faulted, coUnused>>

\* the timer's wait ends with no cancel (the timer was never given an expiry
\* time): wait() throws, the exception ends the writer's loop
CoTimerFires(s) ==
  /\ CoRunning
  /\ wpc[s] = "waiting"
  /\ CoOnWriterShutdown(s)
  /\ UNCHANGED <<name, nameValid, messages, rline, apc, created, envVars,
                 shutdownReturned, faulted, coUnused>>

\* the write of a message ends: the next getMessage(), or the exception of
\* a failed write ends the writer's loop
CoMessageWritten(s) ==
  /\ CoRunning
  /\ wpc[s] = "write"
  /\ \E fault \in Faults :
       /\ inputsLeft' = Spend(fault)
       /\ faulted' = Met(fault, s)
       /\ IF fault
            THEN /\ CoOnWriterShutdown(s)
                 /\ UNCHANGED <<messages, failure>>
            ELSE CoGetMessage(s)
  /\ UNCHANGED <<name, nameValid, rline, apc, created, clock, shutdownReturned,
                 coUnused>>

CoNext ==
  \/ CoAcceptThread
  \/ CoAccept
  \/ \E s \in Sessions : CoReaderThread(s)
  \/ \E s \in Sessions : CoPromptWritten(s)
  \/ \E s \in Sessions : \E n \in Names : CoSetClientName(s, n)
  \/ \E s \in Sessions : CoResponseWritten(s)
  \/ \E s \in Sessions : \E l \in ChatLines \cup Commands : CoParseLine(s, l)
  \/ \E s \in Sessions : CoReaderFault(s)
  \/ \E s \in Sessions : CoReaderAborted(s)
  \/ \E s \in Sessions : CoWriterThread(s)
  \/ \E s \in Sessions : CoWaitReturns(s)
  \/ \E s \in Sessions : CoTimerFires(s)
  \/ \E s \in Sessions : CoMessageWritten(s)
  \/ GoQuiet

CoSpec == Init /\ [][CoNext]_vars

(* ------------------------------- claims -------------------------------- *)
\* both units of s have run their fetch_or
BothTerminated(s) ==
  HasBit(state[s], READER_TERMINATED) /\ HasBit(state[s], WRITER_TERMINATED)

\* C1: removeClient is called for a session exactly once: never twice, and
\* once both units have set their TERMINATED bit it has been called, and it is
\* not called before
C1_RemoveClientExactlyOnce ==
  \A s \in Sessions :
    /\ removeCount[s] <= 1
    /\ BothTerminated(s) <=> removeCount[s] = 1
    /\ (rpc[s] = "done" /\ wpc[s] = "done") => removeCount[s] = 1

\* one session removed by its writer (the reader finished first and is about
\* to notify) and another removed by its reader (the writer finished first)
C1_Witness ==
  \E s, t \in Sessions :
    /\ removeCount[s] = 1 /\ rpc[s] = "notify" /\ wpc[s] = "done"
    /\ removeCount[t] = 1 /\ wpc[t] = "interrupt" /\ rpc[t] = "done"

\* the reaper has erased the name of s
NameErased(s) == s \notin clients \/ (reaperClient = s /\ reaperPc = "eraseClient")

\* setClientName returned true to s and the name has not been erased since
Registered(s) == nameValid[s] /\ ~NameErased(s)

\* the step in which setClientName returns to s
SetClientNameReturns(s) == rpc[s] = "setClientName" /\ rpc'[s] # "setClientName"

\* some session is in the map under the name n
Taken(map, n) == \E c \in Sessions : <<n, c>> \in map

\* C3: a call of setClientName returns true exactly when the name is not in
\* the map, and leaves the name in the map, so of the sessions that ask for a
\* free name one gets true and the others false; a session that got true
\* holds the name until the reaper erases it, no two registered sessions have
\* the same name, and the map never holds two sessions under one name
C3_ExclusiveNames ==
  [][/\ \A s \in Sessions :
          SetClientNameReturns(s) =>
            /\ (nameValid'[s] /\ name'[s] = rline[s]) <=> ~Taken(namesToClients, rline[s])
            /\ Taken(namesToClients', rline[s])
     /\ \A s, t \in Sessions :
          (s # t /\ Registered(s)' /\ Registered(t)') => name'[s] # name'[t]
     /\ \A s \in Sessions : Registered(s)' <=> <<name'[s], s>> \in namesToClients'
     /\ \A p, q \in namesToClients' : p[1] = q[1] => p = q]_vars

\* two sessions asked for the same name: s got it, t was refused
C3_Witness ==
  \E s, t \in Sessions :
    /\ s # t
    /\ Registered(s)
    /\ rpc[t] = "login" /\ rline[t] = name[s] /\ ~nameValid[t]

\* the sessions of the set `to` got message k once each, and nobody else got it
DeliveredTo(k, to) ==
  \A r \in Sessions : bcasts[k].count[r] = IF r \in to THEN 1 ELSE 0

\* C5 as stated: a finished broadcast has appended the message once to the
\* queue of every other session of the live-session set _clients
C5_Original ==
  \A k \in 1..MaxChat :
    bcasts[k].done => DeliveredTo(k, bcasts[k].live \ {bcasts[k].sender})

\* C5 amended: a broadcast appends the message once to the queue of every
\* other session that was in the name map when broadcast copied it, and to
\* no other queue, the sender's least of all
C5_BroadcastToNamed ==
  \A k \in 1..MaxChat :
    /\ bcasts[k].done => DeliveredTo(k, bcasts[k].named \ {bcasts[k].sender})
    /\ \A r \in Sessions :
         /\ bcasts[k].count[r] <= 1
         /\ bcasts[k].count[r] = 1 => r \in bcasts[k].named \ {bcasts[k].sender}

\* a named sender has finished a broadcast that reached another session
C5_Witness ==
  \E k \in 1..MaxChat :
    /\ bcasts[k].done
    /\ bcasts[k].sender \in bcasts[k].named
    /\ \E r \in bcasts[k].named : r # bcasts[k].sender /\ bcasts[k].count[r] = 1

AtRest == Alive /\ ~ENABLED Next

\* the live-session set is empty and the reaper thread has ended
Drained == clients = {} /\ reaperPc = "done"

\* C2: once shutdown() has returned, the run comes to rest (every thread that
\* can run has run, the clients send nothing) only with the live-session set
\* empty and the reaper thread ended; otherwise "eventually" never comes
C2_ShutdownDrains == (shutdownReturned /\ AtRest) => Drained

\* C4: no step appends a message to the queue of a session whose
\* WRITER_TERMINATED bit is set
C4_NoSendToTerminatedWriter ==
  [][\A r \in Sessions :
       Len(messages'[r]) > Len(messages[r]) => ~HasBit(state[r], WRITER_TERMINATED)]_vars

\* the step in which getMessage returns null to the writer of s
ReturnsNullStep(s) ==
  /\ wpc[s] = "test"
  /\ wpc'[s] = "onWriterShutdown"
  /\ messages'[s] = messages[s]

\* C7: when getMessage returns null and so ends the writer's loop, _state is
\* not ALL_RUNNING and the outbound queue is empty
C7_WriterExitsOnEmptyQueue ==
  [][\A s \in Sessions :
       ReturnsNullStep(s) => (state[s] # ALL_RUNNING /\ messages[s] = <<>>)]_vars

\* the reader of s is blocked in read_until
ReaderBlocked(s) == rpc[s] \in {"readName", "readLine"}

\* terminate() has been called on s while both units of s were running, and
\* neither has finished since
TerminatedRunning(s) == state[s] = READER_TERMINATION_REQUESTED

\* C8: after terminate() on a running session the run does not come to rest
\* with the session's writer still waiting on the empty queue or its reader
\* still blocked in a read: fair scheduling alone, with no client input and no
\* sendMessage, gets both out
C8_TerminateWakesBoth ==
  \A s \in Sessions :
    (TerminatedRunning(s) /\ AtRest)
      => ~(wpc[s] = "waiting" /\ messages[s] = <<>>) /\ ~ReaderBlocked(s)

\* nothing but s has ever run a thread
Alone(s) == \A t \in Sessions \ {s} : rpc[t] = "idle" /\ wpc[t] = "idle"

\* C9: when the reader of a named session has read "/quit" and nothing else
\* happens in the system, the run comes to rest only with the session out of
\* the live-session set and its name free, so that setClientName with that
\* name returns true again
C9_QuitFreesName ==
  \A s \in Sessions :
    (s \in quitRead /\ nameValid[s] /\ Alone(s) /\ AtRest)
      => (s \notin clients /\ ~NameFound(namesToClients, name[s]))

\* a step of terminate() on session c: its fetch_or or its pthread_kill
TerminateStepOn(c) ==
  \E t \in Sessions :
    \/ rpc[t] = "terminate" /\ rpc'[t] = "kill" /\ sdCur'[t] = c
    \/ rpc[t] = "kill" /\ sdCur[t] = c /\ rpc'[t] = "terminate"

\* C10: terminate() on a session whose units have both finished changes
\* neither the session's _state nor the reclamation queue, the name map or the
\* live-session set, calls removeClient for nobody and raises no error
C10_TerminateQuiescedNoEffect ==
  [][\A c \in Sessions :
       (TerminateStepOn(c) /\ rpc[c] = "done" /\ wpc[c] = "done")
         => /\ state'[c] = state[c]
            /\ UNCHANGED <<clientsToRemove, namesToClients, clients, removeCount>>
            /\ Alive']_vars

\* the threads of s have not been started
NotStarted(s) == rpc[s] = "idle" /\ wpc[s] = "idle"

\* C11: once _isTerminating is true no step inserts a session into _clients
\* and no step starts the threads of a session
C11_NoInsertWhenTerminating ==
  [][isTerminating =>
       /\ clients' \subseteq clients
       /\ \A s \in Sessions : NotStarted(s) => NotStarted(s)']_vars

\* a connection was accepted and run() has dropped it: the server is
\* terminating, the session is not in _clients and its threads never started
C11_Witness ==
  /\ isTerminating
  /\ created >= 1
  /\ apc # "insert"
  /\ created \notin clients
  /\ NotStarted(created)

\* C12: an exception in the cleanup of one session does not stop the reaper,
\* so the run comes to rest only with every session that was enqueued taken
\* out of the reclamation queue
C12_ReaperSurvivesFailure == AtRest => clientsToRemove = <<>>

\* C13: after an I/O fault in the reader loop or the writer loop of a session
\* the unit runs its shutdown step and the handshake completes: the run comes
\* to rest only with the session enqueued to the reaper, once
C13_FaultCompletesHandshake ==
  \A s \in faulted : AtRest => removeCount[s] = 1

\* the name map holds s under the name of s
Mapped(s) == <<name[s], s>> \in namesToClients

\* the reaper is about to erase the name of s: waitToFinish() has returned,
\* both units of s have set their bit and both threads are joined
ReaperErases(s) ==
  /\ reaperPc = "eraseName" /\ reaperClient = s
  /\ BothTerminated(s)
  /\ rpc[s] = "done" /\ wpc[s] = "done" /\ readerJoined[s]

\* C14: a successful setClientName maps the name to the session; the mapping
\* stays, unchanged, through every step but the reaper's erase, which comes
\* after waitToFinish() has returned for that session; and while it stays a
\* setClientName with that name by another session returns false
C14_NameLifetime ==
  [][\A s \in Sessions :
       /\ (nameValid'[s] /\ ~nameValid[s]) => Mapped(s)'
       /\ Mapped(s) =>
            \/ Mapped(s)' /\ name'[s] = name[s]
            \/ ReaperErases(s)
       /\ \A u \in Sessions \ {s} :
            (SetClientNameReturns(u) /\ Mapped(s) /\ rline[u] = name[s])
              => ~nameValid'[u] /\ Mapped(s)']_vars

\* the reaper has erased the name a session had registered, and another
\* session still holds its own
C14_Witness ==
  /\ reaperPc = "eraseClient"
  /\ nameValid[reaperClient]
  /\ ~Mapped(reaperClient)
  /\ \E u \in Sessions \ {reaperClient} : Mapped(u)

\* the reaper thread function has returned, by the break or through the catch
ReaperEnded == reaperPc \in {"done", CatchOutsideLoop}

\* C15: whenever the reaper thread has ended, _isTerminating is true, the
\* live-session set is empty and the reclamation queue is empty
C15_ReaperEndedDrained ==
  ReaperEnded => isTerminating /\ clients = {} /\ clientsToRemove = <<>>

\* the step is the fetch_or of the reader of s, and it reads WRITER_TERMINATED
ReaderObservesWriter(s) ==
  /\ rpc[s] = "onReaderShutdown" /\ rpc'[s] # "onReaderShutdown"
  /\ HasBit(state[s], WRITER_TERMINATED)

\* the step is the fetch_or of the writer of s, and it reads READER_TERMINATED
WriterObservesReader(s) ==
  /\ wpc[s] = "onWriterShutdown" /\ wpc'[s] # "onWriterShutdown"
  /\ HasBit(state[s], READER_TERMINATED)

\* the sessions of the reclamation queue
Enqueued == {clientsToRemove[i] : i \in 1..Len(clientsToRemove)}

\* C16: removeClient is called for a session only in the step of the unit
\* whose fetch_or read the other unit's TERMINATED bit; so every session of
\* the reclamation queue and the session the reaper passes to waitToFinish
\* have both bits set, and the assertions of waitToFinish hold
C16_EnqueuedByObserver ==
  [][/\ \A s \in Sessions :
          removeCount'[s] > removeCount[s]
            => ReaderObservesWriter(s) \/ WriterObservesReader(s)
     /\ \A s \in Enqueued' : BothTerminated(s)'
     /\ reaperPc' = "waitToFinish" => BothTerminated(reaperClient)']_vars

\* the reaper is about to run waitToFinish on one session while another
\* waits in the reclamation queue
C16_Witness == reaperPc = "waitToFinish" /\ clientsToRemove # <<>>

\* C17: a session whose reader has finished does not leave its writer waiting
\* for ever: the notify_one of onReaderShutdown reaches the writer, so the
\* run comes to rest only with the writer of such a session finished
C17_NotifyNotLost ==
  \A s \in Sessions :
    (HasBit(state[s], READER_TERMINATED) /\ AtRest) => wpc[s] = "done"

\* C18: a session whose reader has been interrupted (by its writer or by
\* terminate(): the request bit is set) does not leave the reader in a read
\* for ever, wherever the reader was: the run comes to rest only with the
\* reader of such a session finished
C18_InterruptNotLost ==
  \A s \in Sessions :
    (HasBit(state[s], READER_TERMINATION_REQUESTED) /\ AtRest) => rpc[s] = "done"

\* C19: whenever _isTerminating is true, every session of the live-session
\* set has its READER_TERMINATION_REQUESTED bit set
C19_AllLiveTerminated ==
  isTerminating =>
    \A s \in clients : HasBit(state[s], READER_TERMINATION_REQUESTED)

\* shutdown() has set the flag with every session the clients can open in
\* the live-session set, each with the request bit
C19_Witness ==
  /\ isTerminating
  /\ Cardinality(clients) = MaxSessions
  /\ \A s \in clients : HasBit(state[s], READER_TERMINATION_REQUESTED)

\* C20: shutdown() calls terminate() on the sessions of a snapshot, after it
\* has released _clientsMutex: no step of terminate() is taken while the
\* thread that runs shutdown() holds the lock
C20_TerminateOutsideLock ==
  [][\A c \in Sessions : TerminateStepOn(c) => ~ClientsMutexHeld]_vars

\* the reader of s is in the line loop: reading a line, parsing it, or inside
\* the broadcast parseLine called
InLineLoop(s) == rpc[s] \in {"readLine", "parseLine", "broadcast", "send"}

\* C21: the reader of a session is in the line loop, and calls broadcast, only
\* after its setClientName has returned true: no session without a name reads
\* a chat line or broadcasts, termination requested during the login or not
C21_NoBroadcastUnnamed ==
  \A s \in Sessions : InLineLoop(s) => nameValid[s]

\* the three flags of _state
Flags == {READER_TERMINATED, WRITER_TERMINATED, READER_TERMINATION_REQUESTED}

\* the flags set in the value v
FlagsOf(v) == {bit \in Flags : HasBit(v, bit)}

\* C22: no step clears a flag of _state, and no fetch_or is lost: the step
\* of onReaderShutdown leaves READER_TERMINATED set, the step of
\* onWriterShutdown WRITER_TERMINATED, the steps of interruptReader() and
\* terminate() READER_TERMINATION_REQUESTED, whatever the other threads have
\* or-ed in meanwhile
C22_FlagsMonotonic ==
  [][\A s \in Sessions :
       /\ state'[s] # state[s] => FlagsOf(state[s]) \subseteq FlagsOf(state'[s])
       /\ (rpc[s] = "onReaderShutdown" /\ rpc'[s] # "onReaderShutdown")
            => HasBit(state'[s], READER_TERMINATED)
       /\ (wpc[s] = "onWriterShutdown" /\ wpc'[s] # "onWriterShutdown")
            => HasBit(state'[s], WRITER_TERMINATED)
       /\ (wpc[s] = "interrupt" /\ wpc'[s] = "done")
            => HasBit(state'[s], READER_TERMINATION_REQUESTED)
       /\ TerminateStepOn(s) => HasBit(state'[s], READER_TERMINATION_REQUESTED)]_vars

\* the reader, the writer and shutdown() have each or-ed their flag into the
\* _state of one session, the writer and shutdown() both before the reader
C22_Witness ==
  \E s \in Sessions :
    /\ FlagsOf(state[s]) = Flags
    /\ removeCount[s] = 1 /\ rpc[s] = "done" /\ wpc[s] = "interrupt"
    /\ \E t \in Sessions : sdCur[t] = s

\* the step in which setClientName calls setName on s: it returns to s, and
\* it found the name s asked for free
SetNameStep(s) == SetClientNameReturns(s) /\ ~Taken(namesToClients, rline[s])

\* the reader of s is in the login loop
InLoginLoop(s) == rpc[s] \in {"login", "readName", "setClientName"}

\* C23: setName is called on a session at most once: when it is called
\* _nameValid is false (the assertion holds), afterwards _nameValid is true
\* and the reader is out of the login loop for good, and the name, once set,
\* is never assigned again
C23_SetNameOnce ==
  [][\A s \in Sessions :
       /\ SetNameStep(s) => ~nameValid[s] /\ nameValid'[s] /\ Alive'
       /\ nameValid'[s] => ~InLoginLoop(s)'
       /\ nameValid[s] => nameValid'[s] /\ name'[s] = name[s]]_vars

\* every session has had its name set and its reader is in the line loop
C23_Witness == \A s \in Sessions : nameValid[s] /\ InLineLoop(s)

\* getMessage() is about to take _messages.front(): the wait has returned and
\* the test of _state does not make it return null
TakesFront(s) == wpc[s] = "test" /\ ~ReturnsNull(state[s], messages[s])

\* the reaper holds what getClientToRemove() returned
ReaperHoldsClient == reaperPc \in {"waitToFinish", "joinWriter", "eraseName", "eraseClient"}

\* C24: no queue is popped while empty: when getMessage takes the front of
\* the outbound queue the queue is not empty, whatever has happened to _state
\* since the wait predicate was evaluated, and what getClientToRemove took
\* from the reclamation queue is a session
C24_NoPopEmpty ==
  /\ failure # "emptyfront"
  /\ \A s \in Sessions : TakesFront(s) => messages[s] # <<>>
  /\ ReaperHoldsClient => reaperClient \in Sessions

\* a writer is about to take the front of its queue, which holds a message,
\* and the reaper has taken a session from the reclamation queue
C24_Witness ==
  /\ \E s \in Sessions : TakesFront(s) /\ messages[s] # <<>>
  /\ ReaperHoldsClient

\* the step is the reaper's _clients.erase(client), and it removes one element
ReaperErasesOne ==
  /\ reaperPc = "eraseClient"
  /\ reaperClient \in clients
  /\ clients' = clients \ {reaperClient}

\* C25: every session of the reclamation queue, and the session the reaper
\* has taken from it, is in the live-session set; only the reaper's erase
\* takes a session out of the set, and it takes out exactly one (the
\* assertion res == 1 holds)
C25_EraseRemovesOne ==
  [][/\ \A s \in Enqueued' : s \in clients'
     /\ ReaperHoldsClient' => reaperClient' \in clients'
     /\ reaperPc = "eraseClient" => (reaperPc' # "eraseClient" => ReaperErasesOne /\ Alive')
     /\ ~(clients \subseteq clients') => ReaperErasesOne]_vars

\* the reaper has erased one session from the live-session set and another
\* waits in the reclamation queue
C25_Witness ==
  /\ \E s \in Sessions : removeCount[s] = 1 /\ s \notin clients
  /\ clientsToRemove # <<>>

\* the mutexes of the program: three of the ChatServer, one of each session
ClientsMutex == <<"_clientsMutex", 0>>
NamesToClientsMutex == <<"_namesToClientsMutex", 0>>
ClientsToRemoveMutex == <<"_clientsToRemoveMutex", 0>>
MessagesMutex(s) == <<"_messagesMutex", s>>

\* broadcast() keeps _namesToClientsMutex while it sends
ReaderHoldsThroughSend(s) ==
  IF rpc[s] \in {"terminate", "kill"} THEN {ClientsMutex}
  ELSE IF rpc[s] = "send" THEN {NamesToClientsMutex}
  ELSE {}

\* the mutexes the reader thread of s holds between two steps: _clientsMutex
\* inside shutdown(), from the lock to the unlock; every other critical
\* section of a reader is one step
ReaderHolds(s) == IF rpc[s] \in {"terminate", "kill"} THEN {ClientsMutex} ELSE {}

\* the mutexes the reader thread of s locks in its next step
ReaderLocks(s) ==
  IF rpc[s] \in {"setClientName", "broadcast"} THEN {NamesToClientsMutex}
  ELSE IF rpc[s] = "send" THEN {MessagesMutex(Head(rclients[s]))}
  ELSE IF rpc[s] = "shutdown" THEN {ClientsMutex}
  ELSE IF rpc[s] = "onReaderShutdown" /\ ReaderIsSecond(state[s])
    THEN {ClientsToRemoveMutex}
  ELSE {}

\* the mutexes the writer thread of s holds between two steps: its
\* _messagesMutex inside getMessage(), from the lock to wait() or the return
WriterHolds(s) == IF wpc[s] \in {"block", "test"} THEN {MessagesMutex(s)} ELSE {}

\* the mutexes the writer thread of s locks in its next step
WriterLocks(s) ==
  IF wpc[s] = "getMessage" THEN {MessagesMutex(s)}
  ELSE IF wpc[s] = "onWriterShutdown" /\ WriterIsSecond(state[s])
    THEN {ClientsToRemoveMutex}
  ELSE {}

\* the mutexes the accepting thread locks in its next step (it holds none
\* between two steps: the insert and start() are one critical section)
AcceptorLocks == IF apc = "insert" THEN {ClientsMutex} ELSE {}

\* the mutexes the reaper thread locks in its next step (it holds none
\* between two steps: each of its three critical sections is one step)
ReaperLocks ==
  IF reaperPc = "get" THEN {ClientsToRemoveMutex}
  ELSE IF reaperPc = "eraseName" THEN {NamesToClientsMutex}
  ELSE IF reaperPc = "eraseClient" THEN {ClientsMutex}
  ELSE {}

CoReaderEnds(s) == rpc[s] # "done" /\ rpc'[s] = "done"

\* the step ends the writer coroutine of s
CoWriterEnds(s) == wpc[s] # "done" /\ wpc'[s] = "done"

\* C27: in the coroutine variant removeClient is called for a session once,
\* never twice; it is called in the step that ends the second of the
\* session's two coroutines, whichever of the two that is, and in no other;
\* and each coroutine that has ended has left its bit in _state
C27_CoRemoveClientOnce ==
  [][\A s \in Sessions :
       /\ removeCount'[s] <= 1
       /\ removeCount'[s] > removeCount[s]
            <=> \/ CoReaderEnds(s) /\ wpc[s] = "done"
                \/ CoWriterEnds(s) /\ rpc[s] = "done"
       /\ rpc'[s] = "done" <=> HasBit(state'[s], READER_TERMINATED)
       /\ wpc'[s] = "done" <=> HasBit(state'[s], WRITER_TERMINATED)
       /\ BothTerminated(s)' <=> removeCount'[s] = 1]_vars

\* removeClient has been called for one session, whose two coroutines have
\* ended, while in the other the writer has ended first and the reader's
\* cancelled call has not returned yet
C27_Witness ==
  \E s, u \in Sessions :
    /\ removeCount[s] = 1 /\ rpc[s] = "done" /\ wpc[s] = "done"
    /\ state[u] = WRITER_TERMINATED /\ rpc[u] = "aborted"

====
